---- MODULE Spec2Model ----
(***************************************************************************)
(* Model of juriscraper/pacer/free_documents.py: the endpoint resolver,    *)
(* the token acquirer, the date-chunked query dispatcher, the row parser   *)
(* (FreeOpinionRow) and the report assembler                               *)
(* (parse_written_opinions_report).                                        *)
(*                                                                         *)
(* Conventions.  A Python value that may be None is a sequence of length   *)
(* at most one: <<>> is None and <<v>> is the value v.  A Python string    *)
(* is a sequence of one-character strings.  A raised exception is the      *)
(* name of its class in the variable that holds the outcome.               *)
(***************************************************************************)
EXTENDS Integers, Sequences, FiniteSets, TLC

(* ------------------------------ bounds --------------------------------- *)

\* Number of calendar days after BaseDate from which start and end are drawn.
MaxDays == 3
\* Longest page text (in symbols) the report endpoint serves to the token GET.
MaxPage == 3
\* Longest anchor text (in characters) of a row's first cell.
MaxText == 3
\* Largest list handed to the assembler, counted as its responses plus the data
\* rows of their tables.
MaxSize == 5

\* The largest number of calls of the endpoint resolver in a row.
MaxCalls == 2

(* ------------------------- values and helpers -------------------------- *)

None == <<>>

Some(v) == <<v>>

RECURSIVE SeqsUpTo(_, _)
\* All sequences over S of length at most n.
SeqsUpTo(S, n) ==
    IF n = 0 THEN {<<>>}
    ELSE LET shorter == SeqsUpTo(S, n - 1)
         IN  shorter \cup {Append(s, x) : s \in shorter, x \in S}

(* ------------------------------ calendar ------------------------------- *)

IsLeap(y) == (y % 4 = 0 /\ y % 100 # 0) \/ y % 400 = 0

DaysInMonth(y, m) ==
    IF m = 2 THEN (IF IsLeap(y) THEN 29 ELSE 28)
    ELSE IF m \in {4, 6, 9, 11} THEN 30 ELSE 31

\* The day after d: one step of rrule(DAILY, interval=1).
NextDay(d) ==
    IF d.d < DaysInMonth(d.y, d.m) THEN [d EXCEPT !.d = d.d + 1]
    ELSE IF d.m < 12 THEN [y |-> d.y, m |-> d.m + 1, d |-> 1]
    ELSE [y |-> d.y + 1, m |-> 1, d |-> 1]

\* a <= b on calendar dates (datetime comparison).
DateLeq(a, b) ==
    \/ a.y < b.y
    \/ a.y = b.y /\ a.m < b.m
    \/ a.y = b.y /\ a.m = b.m /\ a.d <= b.d

\* A mutant of RuleDays: a range given backwards is walked from its earlier day.
RECURSIVE RuleDaysEitherOrder(_, _)
RuleDaysEitherOrder(dtstart, until) ==
    IF dtstart = until THEN <<dtstart>>
    ELSE IF DateLeq(dtstart, until)
    THEN <<dtstart>> \o RuleDaysEitherOrder(NextDay(dtstart), until)
    ELSE RuleDaysEitherOrder(until, dtstart)

\* A mutant of RuleDays: `until` taken as exclusive.
RECURSIVE RuleDaysExclusive(_, _)
RuleDaysExclusive(dtstart, until) ==
    IF DateLeq(dtstart, until) /\ dtstart # until
    THEN <<dtstart>> \o RuleDaysExclusive(NextDay(dtstart), until)
    ELSE <<>>

RECURSIVE RuleDays(_, _)
\* rrule(DAILY, interval=1, dtstart=start, until=end): every day from dtstart
\* up to and including until; empty when dtstart is after until.
RuleDays(dtstart, until) ==
    IF DateLeq(dtstart, until)
    THEN <<dtstart>> \o RuleDays(NextDay(dtstart), until)
    ELSE <<>>

\* d.strftime('%m/%d/%Y'): month, day, year, in that order.
Strftime(d) == <<d.m, d.d, d.y>>

\* The first day the inputs are drawn from: the last days of a leap February.
BaseDate == [y |-> 2016, m |-> 2, d |-> 28]

RECURSIVE DaysAfter(_, _)
DaysAfter(d, n) == IF n = 0 THEN {d} ELSE {d} \cup DaysAfter(NextDay(d), n - 1)

DateInputs == DaysAfter(BaseDate, MaxDays)

(* ------------------------- endpoint resolver --------------------------- *)

\* A mutant of UnsupportedCourts: the last court of the list is missing.
UnsupportedCourtsShort == {"casb", "innb", "mieb", "miwb"}

\* Line 64.
UnsupportedCourts == {"casb", "innb", "mieb", "miwb", "ohsb"}

FourColumnOverride == {"areb", "arwb"}

SupportedInputs == {"ohnd", "cand", "areb"}

CourtInputs == {"casb", "innb", "mieb", "miwb", "ohsb"} \cup SupportedInputs

\* The identifiers the endpoint resolver is called with: the courts above, and
\* some that name no court.
UrlInputs == CourtInputs \cup {"", "OHND", "zzzz"}

\* A mutant of make_written_report_url: one template for every court.
make_written_report_url_uniform(c) == [host |-> c, script |-> "WrtOpRpt.pl"]

\* make_written_report_url: the URL as host (ecf.<court>.uscourts.gov) and
\* script name under /cgi-bin/.
make_written_report_url(c) ==
    IF c = "ohnd"
    THEN [host |-> "ohnd", script |-> "OHND_WrtOpRpt.pl"]
    ELSE [host |-> c, script |-> "WrtOpRpt.pl"]

(* --------------------------- token acquirer ---------------------------- *)

\* The page text as a sequence of symbols:
\*   "P"  a substring matching  ../cgi-bin/WrtOpRpt.pl\?
\*   "O"  a substring matching  ../cgi-bin/OHND_WrtOpRpt.pl\?
\*   "q"  a double quote,  "c"  any other character but a newline,
\*   "n"  a newline (which `.` does not match).
PageSyms == {"P", "O", "q", "c", "n"}

Pages == SeqsUpTo(PageSyms, MaxPage)

\* The regular expression matches with its prefix at i and its closing quote at j:
\* (.+) takes text[i+1 .. j-1], at least one symbol, none a newline.
MatchAt(text, i, j) ==
    /\ text[i] \in {"P", "O"}
    /\ j >= i + 2
    /\ text[j] = "q"
    /\ \A k \in (i + 1)..(j - 1) : text[k] # "n"

MatchStarts(text) ==
    {i \in 1..Len(text) : \E j \in 1..Len(text) : MatchAt(text, i, j)}

Min(S) == CHOOSE x \in S : \A y \in S : x <= y

Max(S) == CHOOSE x \in S : \A y \in S : x >= y

\* A mutant of TokenOf: no check that the pattern matched (m.group(1) of None).
TokenOfUnchecked(text) ==
    IF MatchStarts(text) = {} THEN [exc |-> "AttributeError", value |-> None]
    ELSE LET i == Min(MatchStarts(text))
             j == Max({k \in 1..Len(text) : MatchAt(text, i, k)})
         IN  [exc |-> "", value |-> Some(SubSeq(text, i + 1, j - 1))]

\* re.search(...) on the page and the `if m is not None` that follows: the
\* leftmost match, its group greedy (up to the last quote of the line); None when
\* nothing matches.
TokenOf(text) ==
    IF MatchStarts(text) = {} THEN [exc |-> "", value |-> None]
    ELSE LET i == Min(MatchStarts(text))
             j == Max({k \in 1..Len(text) : MatchAt(text, i, k)})
         IN  [exc |-> "", value |-> Some(SubSeq(text, i + 1, j - 1))]

(* ------------------------------ row parser ----------------------------- *)

\* Characters of the cell texts: a docket character, a name character, a space.
Chars == {"7", "v", " "}

Whitespace == {" "}

RECURSIVE LStrip(_)
LStrip(s) == IF s # <<>> /\ Head(s) \in Whitespace THEN LStrip(Tail(s)) ELSE s

RECURSIVE RStrip(_)
RStrip(s) ==
    IF s # <<>> /\ s[Len(s)] \in Whitespace THEN RStrip(SubSeq(s, 1, Len(s) - 1)) ELSE s

\* str.strip()
Strip(s) == RStrip(LStrip(s))

SpacesOf(s) == {i \in 1..Len(s) : s[i] = " "}

\* s.split(' ', 1): one part when s holds no space, else the text before the
\* first space and everything after it.
Split1(s) ==
    IF SpacesOf(s) = {} THEN <<s>>
    ELSE LET i == Min(SpacesOf(s))
         IN  <<SubSeq(s, 1, i - 1), SubSeq(s, i + 1, Len(s))>>

\* A value, or the exception raised instead of it.
Val(v) == [exc |-> "", value |-> v]

Raise(e) == [exc |-> e, value |-> None]

\* get_pacer_case_id_from_docket_url: the case id of a docket link.
get_pacer_case_id_from_docket_url(url) == url.caseid

\* get_pacer_document_number_from_doc1_url: the document id of a doc1 link.
get_pacer_document_number_from_doc1_url(url) == url.doc1

\* convert_date_string: the date a date text denotes.
convert_date_string(text) == [date |-> text]

\* A <tr> element, as what the parser's XPath expressions see of it:
\*   ntd      the number of td children
\*   href     td[1]//@href, the first one (None: no link target in the cell)
\*   atext    td[1]//a/text(), the first one (empty: no such text node)
\*   b        td[1]//b, the first one's text content (None: no b element)
\*   tail     the text of td[1] after its elements
\*   date     td[2]//text(), the first one (empty: none)
\*   dochref  td[3]//@href, the first one
\*   doctext  td[3]//text(), the first one (empty: none)
\*   desc     td[4]'s text content
\*   nos      the tails of the i children of td[5] whose text contains "NOS"
\*   cause    the tails of the i children of td[5] whose text contains "Cause"
\* a tail being None when no text follows the element.
MakeRow(ntd, href, atext, b, tail, dochref, nos, cause) ==
    [ntd |-> ntd, href |-> href, atext |-> atext, b |-> b, tail |-> tail,
     date |-> <<"12/31/2008">>, dochref |-> dochref,
     doctext |-> IF dochref = None THEN <<>> ELSE <<"128">>,
     desc |-> "The first doc from case", nos |-> nos, cause |-> cause]

\* A mutant of LastGet: a missing key gives None, as last_good_row.get(key) would.
LastGetDefault(last, key) ==
    IF last = None THEN Val(None) ELSE Val(last[1][key])

\* last_good_row['key'] of a dict that is {} (None here) or a parsed row.
LastGet(last, key) ==
    IF last = None THEN Raise("KeyError") ELSE Val(last[1][key])

\* len(self.element.xpath('./td'))
get_column_count(el) == el.ntd

\* The test both get_docket_number and get_case_name make (lines 169, 179).
IsFourColumn(el, court) ==
    get_column_count(el) = 4 \/ court \in FourColumnOverride

\* A mutant of get_pacer_case_id: a cell without a link gives no case id.
get_pacer_case_id_blank(el, last) ==
    IF el.href = None THEN Val(None)
    ELSE Val(get_pacer_case_id_from_docket_url(el.href[1]))

\* Lines 152-161.
get_pacer_case_id(el, last) ==
    IF el.href = None THEN LastGet(last, "pacer_case_id")
    ELSE Val(get_pacer_case_id_from_docket_url(el.href[1]))

\* A mutant of get_docket_number: the fallback reads the wrong key of the dict.
get_docket_number_wrongkey(el, last, court) ==
    IF el.atext = <<>> THEN LastGet(last, "case_name")
    ELSE IF IsFourColumn(el, court) THEN Val(Split1(el.atext)[1])
    ELSE Val(el.atext)

\* A mutant of get_docket_number: the anchor text is split under either schema.
get_docket_number_split(el, last, court) ==
    IF el.atext = <<>> THEN LastGet(last, "docket_number")
    ELSE Val(Split1(el.atext)[1])

\* Lines 163-175.
get_docket_number(el, last, court) ==
    IF el.atext = <<>> THEN LastGet(last, "docket_number")
    ELSE IF IsFourColumn(el, court) THEN Val(Split1(el.atext)[1])
    ELSE Val(el.atext)

\* cell.text_content() of td[1]
FirstCellText(el) == el.atext \o (IF el.b = None THEN <<>> ELSE el.b[1]) \o el.tail

\* A mutant of get_case_name: the text is split on a run of whitespace, as
\* s.split(None, 1) would.
get_case_name_wsrun(el, last, court) ==
    IF el.ntd < 1 THEN Raise("IndexError")
    ELSE IF IsFourColumn(el, court)
    THEN LET s == Strip(FirstCellText(el))
         IN  IF s # <<>>
             THEN (IF Len(Split1(s)) < 2 THEN Raise("IndexError")
                   ELSE Val(LStrip(Split1(s)[2])))
             ELSE LastGet(last, "case_name")
    ELSE IF el.b # None THEN Val(el.b[1])
    ELSE LastGet(last, "case_name")

\* Lines 177-190.
get_case_name(el, last, court) ==
    IF el.ntd < 1 THEN Raise("IndexError")
    ELSE IF IsFourColumn(el, court)
    THEN LET s == Strip(FirstCellText(el))
         IN  IF s # <<>>
             THEN (IF Len(Split1(s)) < 2 THEN Raise("IndexError") ELSE Val(Split1(s)[2]))
             ELSE LastGet(last, "case_name")
    ELSE IF el.b # None THEN Val(el.b[1])
    ELSE LastGet(last, "case_name")

\* Lines 192-193.
get_case_date(el) ==
    IF el.date = <<>> THEN Raise("IndexError") ELSE Val(convert_date_string(el.date))

\* Lines 195-197.
get_pacer_document_number(el) ==
    IF el.dochref = None THEN Raise("IndexError")
    ELSE Val(get_pacer_document_number_from_doc1_url(el.dochref[1]))

\* Lines 199-200.
get_document_number(el) ==
    IF el.doctext = <<>> THEN Raise("IndexError") ELSE Val(el.doctext)

\* Lines 202-203.
get_description(el) ==
    IF el.ntd < 4 THEN Raise("IndexError") ELSE Val(el.desc)

\* [0].tail.strip() of the marker elements found: IndexError (caught by the
\* caller) when there is none, AttributeError when the first one's tail is None.
MarkerTail(found) ==
    IF found = <<>> THEN Val(None)
    ELSE IF found[1] = None THEN Raise("AttributeError")
    ELSE Val(Some(Strip(found[1][1])))

\* A mutant of get_nos: the four-column test of get_docket_number used here too.
get_nos_override(el, court) ==
    IF IsFourColumn(el, court) THEN Val(None) ELSE MarkerTail(el.nos)

\* Lines 205-212.  (court is not read: the test is on the column count alone.)
get_nos(el, court) ==
    IF get_column_count(el) = 4 THEN Val(None) ELSE MarkerTail(el.nos)

\* Lines 214-221.
get_cause(el, court) ==
    IF get_column_count(el) = 4 THEN Val(None) ELSE MarkerTail(el.cause)

\* The first exception of a sequence of results, "" when there is none.
FirstExc(rs) ==
    IF \A i \in 1..Len(rs) : rs[i].exc = "" THEN ""
    ELSE rs[Min({i \in 1..Len(rs) : rs[i].exc # ""})].exc

\* FreeOpinionRow(element, last_good_row, court_id).as_dict(): lines 107-147.
\* The fields are computed in the order of __init__; the first exception ends
\* the construction.
FreeOpinionRow(el, last, court) ==
    LET f == << get_pacer_case_id(el, last),
                get_docket_number(el, last, court),
                get_case_name(el, last, court),
                get_case_date(el),
                get_pacer_document_number(el),
                get_document_number(el),
                get_description(el),
                get_nos(el, court),
                get_cause(el, court) >>
    IN  IF FirstExc(f) # "" THEN Raise(FirstExc(f))
        ELSE Val(Some([court_id |-> court,
                       column_count |-> get_column_count(el),
                       pacer_case_id |-> f[1].value,
                       docket_number |-> f[2].value,
                       case_name |-> f[3].value,
                       case_date |-> f[4].value,
                       pacer_document_number |-> f[5].value,
                       document_number |-> f[6].value,
                       description |-> f[7].value,
                       nature_of_suit |-> f[8].value,
                       cause |-> f[9].value]))

(* ------------------------------ the inputs ----------------------------- *)

DocketUrl(id) == [script |-> "DktRpt.pl", caseid |-> id]

Doc1Url == [doc1 |-> "035012345678"]

\* The tails a marker element of the fifth cell may have.
TailInputs == {None, Some(<<" ", "7">>)}

MarkerInputs == {<<>>} \cup {<<t>> : t \in TailInputs}

\* The anchor texts of the first cell: any text up to MaxText characters, and a
\* docket number and a name with two spaces between them.
AnchorInputs == SeqsUpTo(Chars, MaxText) \cup {<<"7", " ", " ", "v">>}

\* The rows the row parser is applied to: four or five cells; any anchor text up
\* to MaxText characters, with and without a link target, a bold name and further
\* text in the first cell; a third cell with and without its link; in a fifth
\* cell, each marker absent, last in the cell, or followed by text.
RowInputs ==
    {MakeRow(4, h, a, b, t, d, <<>>, <<>>) :
        h \in {None, Some(DocketUrl("c1"))}, a \in AnchorInputs,
        b \in {None, Some(<<"v">>)}, t \in {<<>>, <<"7", " ", "v">>},
        d \in {None, Some(Doc1Url)}}
    \cup
    {MakeRow(5, x[1], x[2], x[3], x[4], x[5], n, c) :
        x \in {None, Some(DocketUrl("c1"))} \X AnchorInputs
              \X {None, Some(<<"v">>)} \X {<<>>, <<"7", " ", "v">>}
              \X {None, Some(Doc1Url)},
        n \in MarkerInputs, c \in MarkerInputs}

\* The record of an earlier row, as the assembler passes it on.
PrevRecord ==
    [court_id |-> "cand", column_count |-> 5, pacer_case_id |-> "c0",
     docket_number |-> <<"7", "7">>, case_name |-> <<"v", "v">>,
     case_date |-> [date |-> <<"12/30/2008">>],
     pacer_document_number |-> "035012345677", document_number |-> <<"127">>,
     description |-> "An earlier doc", nature_of_suit |-> None, cause |-> None]

LastInputs == {None, Some(PrevRecord)}

RowCourtInputs == {"cand", "areb"}

\* The rows of the responses handed to the assembler.
Full4 == MakeRow(4, Some(DocketUrl("c1")), <<"7", " ", "v">>, None, <<>>, Some(Doc1Url), <<>>, <<>>)

Full5 ==
    MakeRow(5, Some(DocketUrl("c2")), <<"7", "7">>, Some(<<"v", "v">>), <<>>, Some(Doc1Url),
            <<Some(<<" ", "7">>)>>, <<>>)

Blank4 == MakeRow(4, None, <<>>, None, <<>>, Some(Doc1Url), <<>>, <<>>)

Blank5 == MakeRow(5, None, <<>>, None, <<>>, Some(Doc1Url), <<Some(<<" ", "7">>)>>, <<>>)

NoDocLink == MakeRow(4, Some(DocketUrl("c1")), <<"7", " ", "v">>, None, <<>>, None, <<>>, <<>>)

\* The header row of the table: th cells, no td.
HeaderRow == MakeRow(0, None, <<>>, None, <<>>, None, <<>>, <<>>)

AsmRowInputs == {Full4, Full5, Blank4, Blank5, NoDocLink}

\* A response: its status, its URL, the number after the "Total number of
\* opinions reported" marker (None: no marker in the page) and the tr elements
\* of its first table (none: no table).
MakeResponse(status, court, marker, trs) ==
    [status |-> status, url |-> make_written_report_url(court), marker |-> marker,
     trs |-> trs]

\* The tables of the responses with a count above zero: none, or a header row
\* and at most n data rows.
TableInputs(n) == {<<>>} \cup {<<HeaderRow>> \o rows : rows \in SeqsUpTo(AsmRowInputs, n)}

\* The tables of the responses whose count reads 0: none, one with a row that
\* parses, one with a row that cannot be parsed.
ZeroTableInputs(n) ==
    IF n = 0 THEN {<<>>} ELSE {<<>>, <<HeaderRow, Full4>>, <<HeaderRow, NoDocLink>>}

\* The responses handed to the assembler, with at most n data rows: with an
\* error status, with and without a body; without the count marker; with a count
\* of 0; with a count above 0.
ResponseInputs(n) ==
    {MakeResponse(500, "cand", None, <<>>)}
    \cup {MakeResponse(500, "cand", Some(1), t) : t \in ZeroTableInputs(n) \ {<<>>}}
    \cup {MakeResponse(200, "cand", None, <<>>)}
    \cup {MakeResponse(200, "cand", Some(0), t) : t \in ZeroTableInputs(n)}
    \cup {MakeResponse(200, c, Some(1), t) : c \in RowCourtInputs, t \in TableInputs(n)}

(* ------------------------------ dispatcher ----------------------------- *)

HttpStatuses == {200, 500}

VARIABLES
    court_id,      \* argument of query_free_documents_report
    start,         \* argument: first day
    end,           \* argument: last day
    pc,            \* position in query_free_documents_report
    r_text,        \* get_written_report_token: r.text of the GET, None before it
    csrf_token,    \* the token, None when not found
    dates,         \* the formatted days still to be queried and already queried
    responses,     \* the responses collected so far
    http,          \* every HTTP request issued, in order
    outcome,       \* "" while running, "returned", or the exception raised
    returned,      \* None, or the list returned
    \* FreeOpinionRow, applied on its own
    row_in,        \* the arguments: element, last_good_row, court_id
    row_out,       \* None before the call; then the dict, or the exception
    \* parse_written_opinions_report
    a_pc,          \* position in the function
    a_consumed,    \* the responses the outer loop has taken from the list
    a_court,       \* court_id
    a_rows,        \* rows of the response at hand
    a_next,        \* index in a_rows of the row the inner loop takes next
    results,       \* results
    a_calls,       \* every FreeOpinionRow(...) constructed, in order
    a_outcome,     \* "" while running, "returned", or the exception raised
    a_returned,    \* None, or the list returned
    \* several invocations of the pipeline at once
    inv,           \* per invocation: its arguments, its position, what it sent and
                   \* received over the network, and how it ended
    par,           \* the call frames: the locals of the functions
    \* make_written_report_url, applied on its own
    u_calls        \* every call made so far: its argument and what it returned

dvars == <<court_id, start, end, pc, r_text, csrf_token, dates, responses, http, outcome,
           returned>>

rvars == <<row_in, row_out>>

avars == <<a_pc, a_consumed, a_court, a_rows, a_next, results, a_calls, a_outcome, a_returned>>

pvars == <<inv, par>>

uvars == <<u_calls>>

vars == <<dvars, rvars, avars, pvars, uvars>>

\* The dispatcher before query_free_documents_report is called with some arguments.
DIdle ==
    /\ court_id = "cand"
    /\ start = BaseDate
    /\ end = BaseDate
    /\ pc = "idle"
    /\ r_text = None
    /\ csrf_token = None
    /\ dates = <<>>
    /\ responses = <<>>
    /\ http = <<>>
    /\ outcome = ""
    /\ returned = None

\* No row is being parsed on its own.
RIdle ==
    /\ row_in = None
    /\ row_out = None

\* The assembler before parse_written_opinions_report is called.
AIdle ==
    /\ a_pc = "idle"
    /\ a_consumed = <<>>
    /\ a_court = ""
    /\ a_rows = <<>>
    /\ a_next = 1
    /\ results = <<>>
    /\ a_calls = <<>>
    /\ a_outcome = ""
    /\ a_returned = None

\* The invocations a worker pool runs at once.
Procs == {1, 2}

\* A frame before its function is entered.
NewFrame == [csrf_token |-> None, dates |-> <<>>, responses |-> <<>>, returned |-> None]

\* No pipeline is running.
PIdle ==
    /\ inv = [p \in Procs |->
                [court_id |-> "cand", start |-> BaseDate, end |-> BaseDate, pc |-> "idle",
                 sent |-> <<>>, page |-> None, answers |-> <<>>, outcome |-> "",
                 result |-> None]]
    /\ par = [f \in Procs |-> NewFrame]

\* The endpoint resolver has not been called.
UIdle == u_calls = <<>>

DInit ==
    /\ court_id \in CourtInputs
    /\ start \in DateInputs
    /\ end \in DateInputs
    /\ pc = "call"
    /\ r_text = None
    /\ csrf_token = None
    /\ dates = <<>>
    /\ responses = <<>>
    /\ http = <<>>
    /\ outcome = ""
    /\ returned = None

\* Lines 64-67: the court does not provide the report.
ReturnUnsupported ==
    /\ pc = "call"
    /\ court_id \in UnsupportedCourts
    /\ pc' = "done"
    /\ outcome' = "returned"
    /\ returned' = Some(<<>>)
    /\ UNCHANGED <<court_id, start, end, r_text, csrf_token, dates, responses, http>>
    /\ UNCHANGED <<rvars, avars, pvars, uvars>>

\* Lines 68-70: a fresh session with the caller's cookie.
OpenSession ==
    /\ pc = "call"
    /\ court_id \notin UnsupportedCourts
    /\ pc' = "token"
    /\ UNCHANGED <<court_id, start, end, r_text, csrf_token, dates, responses, http, outcome,
                   returned>>
    /\ UNCHANGED <<rvars, avars, pvars, uvars>>

GetRequest(c) ==
    [method |-> "GET", url |-> make_written_report_url(c), query |-> None,
     timeout |-> 450, filed_from |-> None, filed_to |-> None]

\* Line 71, get_written_report_token (lines 50-60): one GET; the server answers
\* with some page, or the transport fails and requests raises.
GetToken ==
    /\ pc = "token"
    /\ http' = Append(http, GetRequest(court_id))
    /\ \/ \E page \in Pages :
            /\ r_text' = Some(page)
            /\ IF TokenOf(page).exc = ""
               THEN /\ csrf_token' = TokenOf(page).value
                    /\ pc' = "dates"
                    /\ outcome' = outcome
               ELSE /\ csrf_token' = None
                    /\ pc' = "done"
                    /\ outcome' = TokenOf(page).exc
       \/ /\ r_text' = None
          /\ csrf_token' = None
          /\ pc' = "done"
          /\ outcome' = "ConnectionError"
    /\ UNCHANGED <<court_id, start, end, dates, responses, returned>>
    /\ UNCHANGED <<rvars, avars, pvars, uvars>>

\* Lines 72-74: the days of the range, formatted; the token fetch's frame is gone.
ExpandDates ==
    /\ pc = "dates"
    /\ dates' = [i \in 1..Len(RuleDays(start, end)) |-> Strftime(RuleDays(start, end)[i])]
    /\ r_text' = None
    /\ pc' = "loop"
    /\ UNCHANGED <<court_id, start, end, csrf_token, responses, http, outcome, returned>>
    /\ UNCHANGED <<rvars, avars, pvars, uvars>>

\* A mutant of PostRequest: the form is posted with a timeout above the GET's.
PostRequestLongTimeout(c, token, d) ==
    [method |-> "POST", url |-> make_written_report_url(c), query |-> Some(token),
     timeout |-> 600, filed_from |-> Some(d), filed_to |-> Some(d)]

\* A mutant of PostRequest: the token is left out of the URL.
PostRequestNoToken(c, token, d) ==
    [method |-> "POST", url |-> make_written_report_url(c), query |-> None,
     timeout |-> 300, filed_from |-> Some(d), filed_to |-> Some(d)]

\* Lines 79-91: the request s.post sends.
PostRequest(c, token, d) ==
    [method |-> "POST", url |-> make_written_report_url(c), query |-> Some(token),
     timeout |-> 300, filed_from |-> Some(d), filed_to |-> Some(d)]

\* A mutant of PostUrlError: a missing token is formatted into the URL.
PostUrlErrorNone(token) == ""

\* written_report_url + '?' + csrf_token (line 80): str + None raises TypeError.
PostUrlError(token) == IF token = None THEN "TypeError" ELSE ""

\* A mutant of TransportError: a failed submission is swallowed.
TransportErrorSwallowed(req) == ""

\* s.post (line 79) raises when the transport fails; nothing around it catches.
TransportError(req) == "ConnectionError"

\* Lines 75-91, one iteration: the URL is built, then the form is posted; the
\* server answers with some status, or the transport fails and requests raises.
PostDay ==
    /\ pc = "loop"
    /\ Len(responses) < Len(dates)
    /\ LET d == dates[Len(responses) + 1]
       IN  IF PostUrlError(csrf_token) # ""
           THEN /\ outcome' = PostUrlError(csrf_token)
                /\ pc' = "done"
                /\ UNCHANGED <<responses, http>>
           ELSE LET tok == IF csrf_token = None THEN <<"None">> ELSE csrf_token[1]
                    req == PostRequest(court_id, tok, d)
                IN  /\ http' = Append(http, req)
                    /\ \/ \E st \in HttpStatuses :
                            /\ responses' = Append(responses, [status |-> st, request |-> req])
                            /\ UNCHANGED <<pc, outcome>>
                       \/ /\ outcome' = TransportError(req)
                          /\ pc' = IF TransportError(req) # "" THEN "done" ELSE pc
                          /\ UNCHANGED responses
    /\ UNCHANGED <<court_id, start, end, r_text, csrf_token, dates, returned>>
    /\ UNCHANGED <<rvars, avars, pvars, uvars>>

\* Line 92.
ReturnResponses ==
    /\ pc = "loop"
    /\ Len(responses) = Len(dates)
    /\ pc' = "done"
    /\ outcome' = "returned"
    /\ returned' = Some(responses)
    /\ UNCHANGED <<court_id, start, end, r_text, csrf_token, dates, responses, http>>
    /\ UNCHANGED <<rvars, avars, pvars, uvars>>

DNext ==
    \/ ReturnUnsupported
    \/ OpenSession
    \/ GetToken
    \/ ExpandDates
    \/ PostDay
    \/ ReturnResponses

Init == DInit /\ RIdle /\ AIdle /\ PIdle /\ UIdle

Next == DNext

\* The dispatcher, called with any court and any two days.
Spec == Init /\ [][Next]_vars

(* ------------------------ the row parser, applied ---------------------- *)

RInit ==
    /\ row_in \in {Some([element |-> e, last_good_row |-> l, court_id |-> c]) :
                     e \in RowInputs, l \in LastInputs, c \in RowCourtInputs}
    /\ row_out = None

\* FreeOpinionRow(element, last_good_row, court_id).as_dict()
ParseRow ==
    /\ row_in # None
    /\ row_out = None
    /\ row_out' = Some(FreeOpinionRow(row_in[1].element, row_in[1].last_good_row,
                                      row_in[1].court_id))
    /\ UNCHANGED row_in
    /\ UNCHANGED <<dvars, avars, pvars, uvars>>

RowInit == DIdle /\ RInit /\ AIdle /\ PIdle /\ UIdle

RowNext == ParseRow

\* The row parser, applied to any row, previous record and court.
SpecRow == RowInit /\ [][RowNext]_vars

(* ------------------------------ assembler ------------------------------ *)

\* get_court_id_from_url: the court of ecf.<court>.uscourts.gov.
get_court_id_from_url(url) == url.host

\* A mutant of ResponseCourt: court_id is left as it was set before the loop.
ResponseCourtUnset(response) == "Court not yet set."

\* Line 232: court_id is read from the URL of the response at hand.
ResponseCourt(response) == get_court_id_from_url(response.url)

\* response.raise_for_status(): HTTPError for a 4xx or 5xx status.
raise_for_status(response) ==
    IF response.status >= 400 /\ response.status < 600 THEN "HTTPError" ELSE ""

\* A mutant of DataRows: no more rows are taken than the count reported.
DataRowsByCount(response) ==
    IF response.trs = <<>> THEN <<>>
    ELSE IF response.marker = None THEN Tail(response.trs)
    ELSE SubSeq(Tail(response.trs), 1, Min({response.marker[1], Len(response.trs) - 1}))

\* A mutant of DataRows: the first row of the table is taken too.
DataRowsWithHeader(response) == response.trs

\* (//table)[1]//tr[position() > 1]: the rows of the first table but its first.
DataRows(response) ==
    IF response.trs = <<>> THEN <<>> ELSE Tail(response.trs)

RECURSIVE RowsIn(_)
\* The data rows of a list of responses, counted.
RowsIn(rs) == IF rs = <<>> THEN 0 ELSE Len(DataRows(Head(rs))) + RowsIn(Tail(rs))

\* The size of a list of responses: its responses plus their data rows.
SizeOf(rs) == Len(rs) + RowsIn(rs)

\* A mutant of SkipsResponse: no response is skipped for its count.
SkipsResponseNever(opinion_count) == FALSE

\* Lines 240-241.
SkipsResponse(opinion_count) == opinion_count = 0

\* A mutant of LastGoodRow: the first result is passed on, not the last.
LastGoodRowFirst(res) == IF res # <<>> THEN Some(res[1]) ELSE None

\* A mutant of LastGoodRow: every row is parsed with {}.
LastGoodRowNone(res) == None

\* Lines 244-249: the previous result when there is one, else {}.
LastGoodRow(res) == IF res # <<>> THEN Some(res[Len(res)]) ELSE None

\* A mutant of StatusError: only a 4xx status counts as an error.
StatusErrorClientOnly(response) ==
    IF response.status >= 400 /\ response.status < 500 THEN "HTTPError" ELSE ""

\* A mutant of StatusError: the status of a response is not looked at.
StatusErrorIgnored(response) == ""

\* Line 231.
StatusError(response) == raise_for_status(response)

AInit ==
    /\ a_pc = "responses"
    /\ a_consumed = <<>>
    /\ a_court = "Court not yet set."
    /\ a_rows = <<>>
    /\ a_next = 1
    /\ results = <<>>
    /\ a_calls = <<>>
    /\ a_outcome = ""
    /\ a_returned = None

\* A mutant of AppendResult: one dict is filled again for every row, so the
\* records already in the list change with it.
AppendResultShared(res, parsed) ==
    IF parsed.value = <<>> THEN res
    ELSE [i \in 1..(Len(res) + 1) |-> parsed.value[1]]

\* Line 250: results.append(row.as_dict()), as_dict (lines 141-147) building a
\* new dict for each row.
AppendResult(res, parsed) == res \o parsed.value

\* A mutant of RowError: a row that cannot be parsed is passed over.
RowErrorSkipped(parsed) == ""

\* Lines 247-250: an exception of the FreeOpinionRow constructor is not caught.
RowError(parsed) == parsed.exc

AsmRaise(e) ==
    /\ a_outcome' = e
    /\ a_pc' = "done"

\* Lines 230-242: the outer loop takes the next response of the list, checks its
\* status, reads its court and its count and selects its rows.
AsmNextResponse ==
    /\ a_pc = "responses"
    /\ SizeOf(a_consumed) < MaxSize
    /\ \E response \in ResponseInputs(MaxSize - SizeOf(a_consumed) - 1) :
        /\ a_consumed' = Append(a_consumed, response)
        /\ IF StatusError(response) # ""
           THEN /\ AsmRaise(StatusError(response))
                /\ UNCHANGED <<a_court, a_rows, a_next>>
           ELSE /\ a_court' = ResponseCourt(response)
                /\ IF response.marker = None
                   THEN /\ AsmRaise("IndexError")
                        /\ UNCHANGED <<a_rows, a_next>>
                   ELSE IF SkipsResponse(response.marker[1]) \/ DataRows(response) = <<>>
                   THEN UNCHANGED <<a_pc, a_outcome, a_rows, a_next>>
                   ELSE /\ a_rows' = DataRows(response)
                        /\ a_next' = 1
                        /\ a_pc' = "rows"
                        /\ UNCHANGED a_outcome
    /\ UNCHANGED <<results, a_calls, a_returned>>
    /\ UNCHANGED <<dvars, rvars, pvars, uvars>>

\* One iteration of the inner loop with `last` as the previous row: the row is
\* parsed and its dict appended (lines 247-250).
AsmRowWith(last) ==
    /\ a_pc = "rows"
    /\ LET row == a_rows[a_next]
           parsed == FreeOpinionRow(row, last, a_court)
       IN  /\ a_calls' = Append(a_calls, [response |-> Len(a_consumed), index |-> a_next,
                                          element |-> row, last_good_row |-> last,
                                          court_id |-> a_court])
           /\ IF RowError(parsed) # ""
              THEN /\ AsmRaise(RowError(parsed))
                   /\ UNCHANGED <<results, a_next>>
              ELSE /\ results' = AppendResult(results, parsed)
                   /\ a_next' = a_next + 1
                   /\ a_pc' = IF a_next = Len(a_rows) THEN "responses" ELSE "rows"
                   /\ UNCHANGED a_outcome
    /\ UNCHANGED <<a_consumed, a_court, a_rows, a_returned>>
    /\ UNCHANGED <<dvars, rvars, pvars, uvars>>

\* A mutant of AsmRow: the previous row is forgotten at the start of each response.
AsmRowPerResponse ==
    AsmRowWith(IF a_next = 1 THEN None ELSE LastGoodRow(results))

\* Lines 243-250: the inner loop takes the next row and parses it with the last
\* of the results so far, whichever response that came from.
AsmRow ==
    AsmRowWith(LastGoodRow(results))

\* Lines 251-252: the list is exhausted.
AsmReturn ==
    /\ a_pc = "responses"
    /\ a_pc' = "done"
    /\ a_outcome' = "returned"
    /\ a_returned' = Some(results)
    /\ UNCHANGED <<a_consumed, a_court, a_rows, a_next, results, a_calls>>
    /\ UNCHANGED <<dvars, rvars, pvars, uvars>>

ANext ==
    \/ AsmNextResponse
    \/ AsmRow
    \/ AsmReturn

AsmInit == DIdle /\ RIdle /\ AInit /\ PIdle /\ UIdle

AsmNext == ANext

\* The assembler, called with any list of responses of size at most MaxSize.
SpecAsm == AsmInit /\ [][AsmNext]_vars

(* ------------------- several pipelines at the same time ---------------- *)

RECURSIVE ParseRows(_, _, _)
\* Lines 243-250, the inner loop as a whole: the rows parsed in order, each with
\* the last of the results so far; the first exception ends it.
ParseRows(rows, res, court) ==
    IF rows = <<>> THEN Val(res)
    ELSE LET parsed == FreeOpinionRow(Head(rows), LastGoodRow(res), court)
         IN  IF RowError(parsed) # "" THEN Raise(RowError(parsed))
             ELSE ParseRows(Tail(rows), AppendResult(res, parsed), court)

RECURSIVE AssembleFrom(_, _)
\* Lines 230-250, the outer loop as a whole, entered with `res` as results.
AssembleFrom(resps, res) ==
    IF resps = <<>> THEN Val(res)
    ELSE LET response == Head(resps)
         IN  IF StatusError(response) # "" THEN Raise(StatusError(response))
             ELSE IF response.marker = None THEN Raise("IndexError")
             ELSE IF SkipsResponse(response.marker[1]) THEN AssembleFrom(Tail(resps), res)
             ELSE LET r == ParseRows(DataRows(response), res, ResponseCourt(response))
                  IN  IF r.exc # "" THEN r ELSE AssembleFrom(Tail(resps), r.value)

\* parse_written_opinions_report(responses), lines 224-252, in one step.
parse_written_opinions_report(resps) == AssembleFrom(resps, <<>>)

\* The pages the token fetch of a pipeline may be answered with: one token,
\* another token, no form.
ParPages == {<<"P", "c", "q">>, <<"P", "O", "q">>, <<"c">>}

\* The answers a form submission of a pipeline may get.
ParAnswers(c) ==
    {MakeResponse(200, c, Some(1), <<HeaderRow, Full4>>),
     MakeResponse(200, c, Some(1), <<HeaderRow, Blank4>>),
     MakeResponse(200, c, Some(0), <<>>),
     MakeResponse(500, c, None, <<>>)}

\* The units of work handed to the invocations: different courts, with ranges
\* of one or two days.
ParCourts(p) == IF p = 1 THEN {"cand", "ohsb"} ELSE {"ohnd", "areb"}

ParEnds == {BaseDate, NextDay(BaseDate)}

\* A mutant of Frame: the locals are kept in one place for all invocations, as
\* module-level variables would be.
FrameShared(p) == 1

\* The frame of invocation p: s, csrf_token, dates and responses (lines 68-74)
\* and results (line 228) are locals, one set for each call.
Frame(p) == p

PInit ==
    /\ inv \in [Procs -> [court_id : CourtInputs, start : {BaseDate}, end : ParEnds,
                          pc : {"call"}, sent : {<<>>}, page : {None}, answers : {<<>>},
                          outcome : {""}, result : {None}]]
    /\ \A p \in Procs : inv[p].court_id \in ParCourts(p)
    /\ par = [f \in Procs |-> NewFrame]

\* Lines 64-74 for invocation p: an unsupported court returns []; else the token
\* is fetched on a new session and the days are expanded.  The GET is answered
\* with a page, or the transport fails.
ParCall(p) ==
    /\ inv[p].pc = "call"
    /\ LET me == inv[p]
           f == par[Frame(p)]
       IN  IF me.court_id \in UnsupportedCourts
           THEN /\ par' = [par EXCEPT ![Frame(p)] = [f EXCEPT !.returned = Some(<<>>)]]
                /\ inv' = [inv EXCEPT ![p] = [me EXCEPT !.pc = "assemble"]]
           ELSE \/ \E page \in ParPages :
                    /\ par' = [par EXCEPT ![Frame(p)] =
                                 [f EXCEPT !.csrf_token = TokenOf(page).value,
                                           !.dates = [i \in 1..Len(RuleDays(me.start, me.end)) |->
                                                        Strftime(RuleDays(me.start, me.end)[i])],
                                           !.responses = <<>>]]
                    /\ inv' = [inv EXCEPT ![p] =
                                 [me EXCEPT !.pc = "loop",
                                            !.sent = Append(me.sent, GetRequest(me.court_id)),
                                            !.page = Some(page)]]
                \/ /\ inv' = [inv EXCEPT ![p] =
                                [me EXCEPT !.pc = "done",
                                           !.sent = Append(me.sent, GetRequest(me.court_id)),
                                           !.outcome = "ConnectionError"]]
                   /\ UNCHANGED par
    /\ UNCHANGED <<dvars, rvars, avars, uvars>>

\* Lines 75-91 for invocation p, one iteration.
ParPostDay(p) ==
    /\ inv[p].pc = "loop"
    /\ LET me == inv[p]
           f == par[Frame(p)]
       IN  /\ Len(f.responses) < Len(f.dates)
           /\ IF PostUrlError(f.csrf_token) # ""
              THEN /\ inv' = [inv EXCEPT ![p] =
                                [me EXCEPT !.pc = "done", !.outcome = PostUrlError(f.csrf_token)]]
                   /\ UNCHANGED par
              ELSE LET tok == IF f.csrf_token = None THEN <<"None">> ELSE f.csrf_token[1]
                       req == PostRequest(me.court_id, tok, f.dates[Len(f.responses) + 1])
                   IN  \/ \E answer \in ParAnswers(me.court_id) :
                            /\ par' = [par EXCEPT ![Frame(p)] =
                                         [f EXCEPT !.responses = Append(f.responses, answer)]]
                            /\ inv' = [inv EXCEPT ![p] =
                                         [me EXCEPT !.sent = Append(me.sent, req),
                                                    !.answers = Append(me.answers, answer)]]
                       \/ /\ inv' = [inv EXCEPT ![p] =
                                       [me EXCEPT !.sent = Append(me.sent, req),
                                                  !.outcome = TransportError(req),
                                                  !.pc = IF TransportError(req) # ""
                                                         THEN "done" ELSE me.pc]]
                          /\ UNCHANGED par
    /\ UNCHANGED <<dvars, rvars, avars, uvars>>

\* Line 92 for invocation p: the list of responses goes on to the assembler.
ParReturn(p) ==
    /\ inv[p].pc = "loop"
    /\ LET f == par[Frame(p)]
       IN  /\ Len(f.responses) = Len(f.dates)
           /\ par' = [par EXCEPT ![Frame(p)] = [f EXCEPT !.returned = Some(f.responses)]]
    /\ inv' = [inv EXCEPT ![p] = [inv[p] EXCEPT !.pc = "assemble"]]
    /\ UNCHANGED <<dvars, rvars, avars, uvars>>

\* parse_written_opinions_report applied to what the dispatcher of invocation p
\* returned; it has no point of suspension.
ParAssemble(p) ==
    /\ inv[p].pc = "assemble"
    /\ par[Frame(p)].returned # None
    /\ LET r == parse_written_opinions_report(par[Frame(p)].returned[1])
       IN  inv' = [inv EXCEPT ![p] =
                     [inv[p] EXCEPT !.pc = "done",
                                    !.outcome = IF r.exc # "" THEN r.exc ELSE "returned",
                                    !.result = IF r.exc # "" THEN None ELSE Some(r.value)]]
    /\ UNCHANGED par
    /\ UNCHANGED <<dvars, rvars, avars, uvars>>

\* The caller of invocation p gives it up (a deadline of the task, say).
ParCancel(p) ==
    /\ inv[p].pc \in {"call", "loop", "assemble"}
    /\ inv' = [inv EXCEPT ![p] = [inv[p] EXCEPT !.pc = "done", !.outcome = "cancelled"]]
    /\ UNCHANGED par
    /\ UNCHANGED <<dvars, rvars, avars, uvars>>

PNext ==
    \E p \in Procs :
        \/ ParCall(p)
        \/ ParPostDay(p)
        \/ ParReturn(p)
        \/ ParAssemble(p)
        \/ ParCancel(p)

ParInit == DIdle /\ RIdle /\ AIdle /\ PInit /\ UIdle

ParNext == PNext

\* Two invocations of the pipeline, their steps interleaved in any order.
SpecPar == ParInit /\ [][ParNext]_vars

(* --------------------- the endpoint resolver, applied ------------------ *)

\* make_written_report_url(c), called with any identifier, after any calls.
ResolveUrl ==
    /\ Len(u_calls) < MaxCalls
    /\ \E c \in UrlInputs :
        u_calls' = Append(u_calls, [court_id |-> c, url |-> make_written_report_url(c)])
    /\ UNCHANGED <<dvars, rvars, avars, pvars>>

UrlInit == DIdle /\ RIdle /\ AIdle /\ PIdle /\ UIdle

UrlNext == ResolveUrl

\* The endpoint resolver, called MaxCalls times with any identifiers.
SpecUrl == UrlInit /\ [][UrlNext]_vars

(* ======================== claims on the dispatcher ===================== *)

Posts == SelectSeq(http, LAMBDA r : r.method = "POST")

Gets == SelectSeq(http, LAMBDA r : r.method = "GET")

\* The token fetch has come back with a page (r_text is kept only until the days
\* are expanded).
TokenFetched ==
    \/ pc \in {"dates", "loop"}
    \/ pc = "done" /\ r_text # None
    \/ pc = "done" /\ court_id \notin UnsupportedCourts /\ outcome \in {"returned", "TypeError"}
    \/ pc = "done" /\ Len(http) > 1

RECURSIVE DaysBeforeMonth(_, _)
DaysBeforeMonth(y, m) == IF m = 1 THEN 0 ELSE DaysBeforeMonth(y, m - 1) + DaysInMonth(y, m - 1)

RECURSIVE DaysBeforeYear(_)
DaysBeforeYear(y) ==
    IF y <= BaseDate.y THEN 0
    ELSE DaysBeforeYear(y - 1) + (IF IsLeap(y - 1) THEN 366 ELSE 365)

\* The number of the day d, counted from the first of January of BaseDate's year.
DayNumber(d) == DaysBeforeYear(d.y) + DaysBeforeMonth(d.y, d.m) + d.d

\* The number of the day a form field 'MM/DD/YYYY' names.
FieldDayNumber(f) == DayNumber([y |-> f[3], m |-> f[1], d |-> f[2]])

\* The number of days of the range [start, end], both ends included.
RangeDays == IF DateLeq(start, end) THEN DayNumber(end) - DayNumber(start) + 1 ELSE 0

C1_Courts == {"casb", "innb", "mieb", "miwb", "ohsb"}

\* C1: for a court of the unsupported set and any two days, the dispatcher issues
\* no HTTP request at all, and when it ends it has returned the empty list.
C1_UnsupportedNoHttp ==
    court_id \in C1_Courts =>
        /\ http = <<>>
        /\ pc \in {"call", "done"}
        /\ pc = "done" => outcome = "returned" /\ returned = Some(<<>>)

C1_Witness == court_id = "ohsb" /\ pc = "done" /\ start # end

\* C2: for a supported court with a token, the i-th form submission carries the
\* i-th day of the range as filed_from and as filed_to, so the submissions are in
\* strictly ascending date order and never more than the N days of the range;
\* when the dispatcher returns it has issued exactly N, and the i-th of the N
\* responses returned answers the i-th submission.
C2_OnePostPerDay ==
    court_id \notin UnsupportedCourts /\ csrf_token # None =>
        /\ Len(Posts) <= RangeDays
        /\ \A i \in 1..Len(Posts) :
            /\ Posts[i].filed_from = Posts[i].filed_to
            /\ Posts[i].filed_from # None
            /\ FieldDayNumber(Posts[i].filed_from[1]) = DayNumber(start) + i - 1
        /\ outcome = "returned" =>
            /\ Len(Posts) = RangeDays
            /\ returned # None
            /\ Len(returned[1]) = RangeDays
            /\ \A i \in 1..RangeDays : returned[1][i].request = Posts[i]

\* A range over the end of February of a leap year, answered in full.
C2_Witness ==
    /\ outcome = "returned"
    /\ csrf_token # None
    /\ start = BaseDate
    /\ RangeDays = 3
    /\ Len(returned[1]) = 3
    /\ Posts[3].filed_from = Some(<<3, 1, 2016>>)

\* C7: a token that was not found, for a supported court and start <= end: no
\* form is ever posted, and the dispatch ends by raising, with no list returned.
C7_NoTokenIsFatal ==
    court_id \notin UnsupportedCourts /\ TokenFetched /\ csrf_token = None =>
        /\ Posts = <<>>
        /\ DateLeq(start, end) /\ pc = "done" =>
            outcome \notin {"", "returned"} /\ returned = None

C7_Witness ==
    /\ court_id \notin UnsupportedCourts
    /\ csrf_token = None
    /\ pc = "done"
    /\ outcome = "TypeError"
    /\ Len(http) = 1

\* The form-action pattern occurs in the page: a prefix, then at least one
\* character of the same line, then a double quote.
C8_PatternIn(text) ==
    \E i, j \in 1..Len(text) :
        /\ text[i] \in {"P", "O"}
        /\ j >= i + 2
        /\ text[j] = "q"
        /\ \A k \in i..j : text[k] # "n"

\* tok stands in the page between a prefix and a double quote.
C8_IsTokenOf(tok, text) ==
    /\ Len(tok) >= 1
    /\ \A k \in 1..Len(tok) : tok[k] # "n"
    /\ \E i \in 1..Len(text) :
        /\ text[i] \in {"P", "O"}
        /\ i + Len(tok) + 1 <= Len(text)
        /\ SubSeq(text, i + 1, i + Len(tok)) = tok
        /\ text[i + Len(tok) + 1] = "q"

\* C8: once the token acquirer has come back with a page, exactly one request
\* has been issued, a GET of the court's report endpoint; the token is a text
\* standing between the form-action prefix and a quote when the pattern occurs
\* in the page, and None, with no exception raised, when it does not.
C8_TokenOrNone ==
    r_text # None =>
        /\ Len(http) = 1
        /\ http[1].method = "GET"
        /\ http[1].url = make_written_report_url(court_id)
        /\ outcome = ""
        /\ IF C8_PatternIn(r_text[1])
           THEN csrf_token # None /\ C8_IsTokenOf(csrf_token[1], r_text[1])
           ELSE csrf_token = None

\* A page with the prefix and no closing quote: the pattern does not match.
C8_Witness ==
    /\ r_text # None
    /\ csrf_token = None
    /\ \E i \in 1..Len(r_text[1]) : r_text[1][i] = "P"
    /\ pc = "dates"

(* ======================== claims on the row parser ===================== *)

RowElement == row_in[1].element

RowCourt == row_in[1].court_id

RowParsed == row_out # None /\ row_out[1].exc = ""

RowRecord == row_out[1].value[1]

C4_Override == {"areb", "arwb"}

\* What a marker's elements in the fifth cell give: nothing when there is none,
\* else the text after the first one, stripped (no text when none follows).
C4_Expected(found) ==
    IF found = <<>> THEN None
    ELSE IF found[1] = None THEN Some(<<>>)
    ELSE Some(Strip(found[1][1]))

\* C4, as stated: a parsed row with exactly four td elements, or of a court of
\* the override set, has neither a nature of suit nor a cause.
C4_AsStated ==
    RowParsed /\ (RowElement.ntd = 4 \/ RowCourt \in C4_Override) =>
        RowRecord.nature_of_suit = None /\ RowRecord.cause = None

\* C4, amended: a parsed row with exactly four td elements has neither a nature
\* of suit nor a cause; a row with five has those its fifth cell's markers give,
\* in a court of the override set as in any other.
C4_FourCellsNoSuit ==
    RowParsed =>
        /\ RowElement.ntd = 4 =>
            RowRecord.nature_of_suit = None /\ RowRecord.cause = None
        /\ RowElement.ntd = 5 =>
            /\ RowRecord.nature_of_suit = C4_Expected(RowElement.nos)
            /\ RowRecord.cause = C4_Expected(RowElement.cause)

C4_Witness ==
    /\ RowParsed
    /\ RowCourt \in C4_Override
    /\ RowElement.ntd = 5
    /\ RowRecord.nature_of_suit = Some(<<"7">>)
    /\ RowRecord.cause = None

\* C5: parsing a row with five cells of a court outside the override set raises
\* nothing for a marker, and the record has for each marker the text after it
\* when the marker is in the fifth cell and None when it is not.
C5_MarkersRead ==
    row_out # None /\ RowElement.ntd = 5 /\ RowCourt \notin C4_Override =>
        /\ row_out[1].exc # "AttributeError"
        /\ RowParsed =>
            /\ RowRecord.nature_of_suit = C4_Expected(RowElement.nos)
            /\ RowRecord.cause = C4_Expected(RowElement.cause)

(* ======================== claims on the assembler ====================== *)

Identity(rec) == <<rec.pacer_case_id, rec.docket_number, rec.case_name>>

\* The first cell holds nothing: no link, no text.
BlankFirstCell(el) ==
    el.ntd >= 1 /\ el.href = None /\ el.atext = <<>> /\ el.b = None /\ el.tail = <<>>

\* The first cell holds a link with its target and its text.
FullyPopulated(el) == el.href # None /\ el.atext # <<>>

\* C3: a row with a blank first cell parsed right after a fully populated row R
\* gives a record with R's pacer_case_id, docket_number and case_name, the case
\* id being the one of R's link; and it is parsed, not refused for its blank cell.
C3_CarryForward ==
    \A i \in 2..Len(a_calls) :
        BlankFirstCell(a_calls[i].element) /\ FullyPopulated(a_calls[i - 1].element) =>
            /\ a_outcome # "KeyError"
            /\ i <= Len(results) =>
                /\ Identity(results[i]) = Identity(results[i - 1])
                /\ results[i].pacer_case_id = a_calls[i - 1].element.href[1].caseid

\* Both schemas: a blank row of four cells after a full row of four, and a blank
\* row of five after a full row of five.
C3_Witness ==
    /\ Len(results) = 4
    /\ \E i \in 2..4 :
        /\ BlankFirstCell(a_calls[i].element)
        /\ results[i].column_count = 4 /\ results[i - 1].column_count = 4
        /\ FullyPopulated(a_calls[i - 1].element)
    /\ \E i \in 2..4 :
        /\ BlankFirstCell(a_calls[i].element)
        /\ results[i].column_count = 5 /\ results[i - 1].column_count = 5
        /\ results[i].court_id \notin FourColumnOverride
        /\ FullyPopulated(a_calls[i - 1].element)

\* C6: a response with a good status whose count reads 0 has none of its rows
\* handed to the row parser and raises nothing, whatever its table holds; every
\* record of the results comes from a row that was handed to the parser, so
\* such a response adds none.
C6_ZeroCountSkipped ==
    /\ \A k \in 1..Len(a_consumed) :
        a_consumed[k].status = 200 /\ a_consumed[k].marker = Some(0) =>
            /\ \A i \in 1..Len(a_calls) : a_calls[i].response # k
            /\ k = Len(a_consumed) => a_outcome \in {"", "returned"} /\ a_pc # "rows"
    /\ Len(results) <= Len(a_calls)
    /\ \A i \in 1..Len(results) :
        FreeOpinionRow(a_calls[i].element, a_calls[i].last_good_row,
                       a_calls[i].court_id) = Val(Some(results[i]))

\* A zero-count response whose table holds a row that cannot be parsed, and
\* the assembler returns.
C6_Witness ==
    /\ a_outcome = "returned"
    /\ \E k \in 1..Len(a_consumed) :
        /\ a_consumed[k].marker = Some(0)
        /\ \E j \in 1..Len(a_consumed[k].trs) : a_consumed[k].trs[j] = NoDocLink
    /\ Len(a_returned[1]) = 1

\* C9: once a response with an error status has been taken from the list, the
\* assembler has raised HTTPError and returns nothing, whatever it had parsed.
C9_ErrorStatusFailsAll ==
    (\E k \in 1..Len(a_consumed) : a_consumed[k].status >= 400) =>
        a_pc = "done" /\ a_outcome = "HTTPError" /\ a_returned = None

\* Records had been parsed from an earlier response when the error came.
C9_Witness ==
    /\ a_outcome = "HTTPError"
    /\ Len(results) = 2
    /\ a_consumed[2].marker # None

\* C10: every row is parsed with the record of the row parsed before it, also
\* when that row was in an earlier response; only the first row of the whole
\* assembly is parsed with an empty one.  So a blank first row of a later
\* response gets the identity of the last record of the responses before it.
C10_CarryAcrossResponses ==
    \A i \in 1..Len(a_calls) :
        /\ i = 1 => a_calls[i].last_good_row = None
        /\ i > 1 =>
            /\ i - 1 <= Len(results)
            /\ a_calls[i].last_good_row = Some(results[i - 1])
            /\ a_calls[i].index = 1 /\ BlankFirstCell(a_calls[i].element) =>
                /\ a_outcome # "KeyError"
                /\ i <= Len(results) => Identity(results[i]) = Identity(results[i - 1])

\* The first row of the second response is blank and inherits.
C10_Witness ==
    \E i \in 2..Len(results) :
        /\ a_calls[i].response = 2
        /\ a_calls[i].index = 1
        /\ a_calls[i - 1].response = 1
        /\ BlankFirstCell(a_calls[i].element)
        /\ Identity(results[i]) = Identity(results[i - 1])

(* ================== further claims on the assembler ==================== *)

\* C11, as stated: the first row of every response is parsed with an empty
\* previous record.
C11_AsStated ==
    \A i \in 1..Len(a_calls) :
        a_calls[i].index = 1 => a_calls[i].last_good_row = None

\* C11, amended: the previous record is empty once, for the first row parsed in
\* the whole assembly; the first row of any later response is parsed with the
\* record of the last row of the responses before it.
C11_InitOncePerAssembly ==
    \A i \in 1..Len(a_calls) :
        /\ (a_calls[i].last_good_row = None) <=> (i = 1)
        /\ a_calls[i].index = 1 /\ i > 1 =>
            /\ a_calls[i - 1].response < a_calls[i].response
            /\ a_calls[i].last_good_row = Some(results[i - 1])

\* A later response starts with a row that has its own link, and is parsed with
\* the record of the response before it.
C11_Witness ==
    /\ a_outcome = "returned"
    /\ \E i \in 2..Len(a_calls) :
        /\ a_calls[i].index = 1
        /\ a_calls[i].response = 2
        /\ FullyPopulated(a_calls[i].element)
        /\ a_calls[i].last_good_row # None
        /\ a_calls[i].last_good_row[1].pacer_case_id # results[i].pacer_case_id

\* What the constructor gives for the i-th row handed to it.
CallResult(i) ==
    FreeOpinionRow(a_calls[i].element, a_calls[i].last_good_row, a_calls[i].court_id)

\* C12, as stated: a row that cannot be parsed does not end the assembly.
C12_AsStated ==
    \A i \in 1..Len(a_calls) :
        CallResult(i).exc # "" => a_outcome \in {"", "returned"}

\* C12, amended: a row whose third cell has no link cannot be parsed, and a row
\* that cannot be parsed ends the whole assembly with its exception: it is the
\* last row looked at and nothing is returned, the records parsed before it
\* included.
C12_MalformedRowFailsAll ==
    \A i \in 1..Len(a_calls) :
        /\ a_calls[i].element.dochref = None => CallResult(i).exc # ""
        /\ CallResult(i).exc # "" =>
            /\ i = Len(a_calls)
            /\ Len(results) = i - 1
            /\ a_pc = "done"
            /\ a_outcome = CallResult(i).exc
            /\ a_returned = None

\* Two records had been parsed, from two responses, when the row came.
C12_Witness ==
    /\ a_outcome = "IndexError"
    /\ Len(a_calls) = 3
    /\ Len(results) = 2
    /\ a_calls[1].response = 1
    /\ a_calls[3].response = 2
    /\ a_calls[3].element = NoDocLink

C16_Keys == <<"pacer_case_id", "docket_number", "case_name">>

\* The three identity fields as the row alone gives them: read with no previous
\* record at hand, so a field the row does not hold raises.
C16_Own(i) ==
    <<get_pacer_case_id(a_calls[i].element, None),
      get_docket_number(a_calls[i].element, None, a_calls[i].court_id),
      get_case_name(a_calls[i].element, None, a_calls[i].court_id)>>

\* C16: each of pacer_case_id, docket_number and case_name of each record is
\* the value the record's own row gives, or the value the same field has in the
\* record right before it in the output.
C16_OwnRowOrPrevious ==
    \A i \in 1..Len(results) : \A k \in 1..3 :
        \/ C16_Own(i)[k] = Val(results[i][C16_Keys[k]])
        \/ i > 1 /\ results[i][C16_Keys[k]] = results[i - 1][C16_Keys[k]]

\* Three records of two cases, the third inheriting from the second.
C16_Witness ==
    /\ Len(results) = 3
    /\ Identity(results[1]) # Identity(results[2])
    /\ results[1].docket_number # results[2].docket_number
    /\ BlankFirstCell(a_calls[3].element)
    /\ Identity(results[3]) = Identity(results[2])

\* A response whose rows the inner loop is given.
C19_Taken(response) ==
    /\ response.status < 400
    /\ response.marker # None
    /\ response.marker[1] # 0
    /\ response.trs # <<>>

RECURSIVE C19_Pairs(_)
\* The data rows of the first n responses taken, as <<response, row>> pairs,
\* response by response and in table order.
C19_Pairs(n) ==
    IF n = 0 THEN <<>>
    ELSE C19_Pairs(n - 1) \o
         (IF C19_Taken(a_consumed[n])
          THEN [j \in 1..(Len(a_consumed[n].trs) - 1) |-> <<n, j>>]
          ELSE <<>>)

\* C19: the rows handed to the row parser are the data rows of the responses,
\* response by response and within a response in table order; the i-th record
\* is the one of the i-th row; and the list returned holds one record for every
\* such row.
C19_ConcatInOrder ==
    LET pairs == C19_Pairs(Len(a_consumed))
    IN  /\ Len(a_calls) <= Len(pairs)
        /\ \A i \in 1..Len(a_calls) :
            /\ <<a_calls[i].response, a_calls[i].index>> = pairs[i]
            /\ a_calls[i].element = a_consumed[pairs[i][1]].trs[pairs[i][2] + 1]
        /\ Len(results) <= Len(a_calls)
        /\ \A i \in 1..Len(results) : CallResult(i) = Val(Some(results[i]))
        /\ a_outcome = "returned" =>
            /\ a_returned = Some(results)
            /\ Len(results) = Len(pairs)

\* Three responses, the second with a count of 0, give two records.
C19_Witness ==
    /\ a_outcome = "returned"
    /\ Len(a_consumed) = 3
    /\ a_consumed[2].marker = Some(0)
    /\ Len(a_returned[1]) = 2
    /\ a_calls[1].response = 1
    /\ a_calls[2].response = 3
    /\ a_returned[1][1] # a_returned[1][2]

(* ================== further claims on the dispatcher =================== *)

\* C13: a form submission that got no response is the last request of the
\* dispatch: it is the submission for the day after the days answered, the
\* dispatch has ended with the transport's exception, and no list is returned.
C13_TransportFailureAborts ==
    /\ Len(Posts) <= Len(responses) + 1
    /\ Len(Posts) > Len(responses) =>
        /\ pc = "done"
        /\ outcome = "ConnectionError"
        /\ returned = None
        /\ http[Len(http)] = Posts[Len(Posts)]
        /\ FieldDayNumber(Posts[Len(Posts)].filed_from[1]) = DayNumber(start) + Len(responses)
    /\ outcome = "ConnectionError" => pc = "done" /\ returned = None

\* The second of three days fails: one response was collected, the third day is
\* never asked for.
C13_Witness ==
    /\ outcome = "ConnectionError"
    /\ RangeDays = 3
    /\ Len(responses) = 1
    /\ Len(Posts) = 2

\* C14, as stated: every form submission has a timeout above the token fetch's.
C14_AsStated ==
    \A i, j \in 1..Len(http) :
        http[i].method = "GET" /\ http[j].method = "POST" =>
            http[j].timeout > http[i].timeout

\* C14, amended: every form submission has a timeout below the token fetch's.
C14_PostTimeoutShorter ==
    \A i, j \in 1..Len(http) :
        http[i].method = "GET" /\ http[j].method = "POST" =>
            http[j].timeout < http[i].timeout

C14_Witness ==
    /\ Len(Gets) = 1
    /\ Len(Posts) = 2
    /\ Posts[2].timeout = 300
    /\ Gets[1].timeout = 450

\* C20: a dispatch issues at most one GET, as its first request, to the court's
\* own endpoint; there is no token before it; and every form submission carries
\* in its query string the one token the dispatch holds.
C20_TokenOnce ==
    /\ Len(Gets) <= 1
    /\ http # <<>> =>
        /\ http[1].method = "GET"
        /\ http[1].url = make_written_report_url(court_id)
    /\ pc \in {"call", "token"} => csrf_token = None /\ http = <<>>
    /\ r_text # None => csrf_token = TokenOf(r_text[1]).value
    /\ \A i \in 1..Len(Posts) :
        /\ csrf_token # None
        /\ Posts[i].query = csrf_token
        /\ Posts[i].url = http[1].url

C20_Witness ==
    /\ outcome = "returned"
    /\ Len(Gets) = 1
    /\ Len(Posts) = 3
    /\ Posts[1].query = Posts[3].query
    /\ Posts[1].query # None

(* ================== further claims on the row parser =================== *)

\* C17: a row whose first cell has no link, parsed with a previous record, has
\* that record's pacer_case_id, docket_number and case_name, whatever else the
\* first cell holds.
C17_NoLinkAllInherited ==
    RowParsed /\ RowElement.href = None /\ row_in[1].last_good_row # None =>
        Identity(RowRecord) = Identity(row_in[1].last_good_row[1])

(* ================== claims on pipelines run at once ==================== *)

\* The token the page served to invocation p holds.
C18_Token(p) == IF inv[p].page = None THEN None ELSE TokenOf(inv[p].page[1]).value

\* The days of the range invocation p was called with.
C18_Days(p) == RuleDays(inv[p].start, inv[p].end)

\* What invocation p gives when it runs alone and is served the answers it was
\* served: nothing to assemble for an unsupported court.
C18_Alone(p) ==
    IF inv[p].court_id \in UnsupportedCourts THEN Val(<<>>)
    ELSE parse_written_opinions_report(inv[p].answers)

\* C18: under every interleaving of two invocations, what each one sends, how it
\* ends and what it returns follow from its own arguments and from what the
\* network served to it alone: its requests go to its own court, with the token
\* of its own page, for the days of its own range in order; the records it
\* returns are those of its own answers, assembled on their own; and it fails
\* only for a failure of its own, whatever became of the other invocation.
C18_Isolated ==
    \A p \in Procs :
        LET me == inv[p]
            days == C18_Days(p)
        IN  /\ me.court_id \in UnsupportedCourts => me.sent = <<>> /\ me.answers = <<>>
            /\ me.sent # <<>> => me.sent[1] = GetRequest(me.court_id)
            /\ \A i \in 2..Len(me.sent) :
                /\ C18_Token(p) # None
                /\ i - 1 <= Len(days)
                /\ me.sent[i] = PostRequest(me.court_id, C18_Token(p)[1], Strftime(days[i - 1]))
            /\ Len(me.answers) <= Len(days)
            /\ me.result # None => me.outcome = "returned"
            /\ me.outcome = "returned" =>
                /\ me.court_id \notin UnsupportedCourts => Len(me.answers) = Len(days)
                /\ C18_Alone(p).exc = ""
                /\ me.result = Some(C18_Alone(p).value)
            /\ me.outcome = "TypeError" => me.page # None /\ C18_Token(p) = None
            /\ me.outcome = "ConnectionError" =>
                Len(me.sent) = Len(me.answers) + (IF me.page = None THEN 1 ELSE 2)
            /\ me.outcome \notin {"", "returned", "cancelled", "TypeError", "ConnectionError"} =>
                /\ Len(me.answers) = Len(days)
                /\ C18_Alone(p).exc = me.outcome

\* One invocation is given up between its two days; the other, with another
\* token and another court, returns the two records of its two days.
C18_Witness ==
    /\ inv[1].outcome = "cancelled"
    /\ Len(inv[1].answers) = 1
    /\ Len(C18_Days(1)) = 2
    /\ inv[2].outcome = "returned"
    /\ inv[2].court_id = "areb"
    /\ Len(inv[2].result[1]) = 2
    /\ C18_Token(1) # C18_Token(2)
    /\ C18_Token(1) # None

(* ================= claims on the endpoint resolver ===================== *)

\* C22: every call of the endpoint resolver returns an endpoint, whatever the
\* identifier and whatever was asked before: for 'ohnd' the host of ohnd with
\* the script OHND_WrtOpRpt.pl, for any other identifier, a court or not,
\* supported or not, the host of that identifier with the script WrtOpRpt.pl;
\* so two calls with one identifier return one endpoint.
C22_EndpointOf ==
    \A i \in 1..Len(u_calls) :
        /\ u_calls[i].url.host = u_calls[i].court_id
        /\ u_calls[i].url.script =
             (IF u_calls[i].court_id = "ohnd" THEN "OHND_WrtOpRpt.pl" ELSE "WrtOpRpt.pl")
        /\ \A j \in 1..Len(u_calls) :
            u_calls[j].court_id = u_calls[i].court_id => u_calls[j].url = u_calls[i].url

\* 'ohnd' resolved after an unsupported court.
C22_Witness ==
    /\ Len(u_calls) = 2
    /\ u_calls[1].court_id = "ohsb"
    /\ u_calls[1].url.script = "WrtOpRpt.pl"
    /\ u_calls[2].court_id = "ohnd"
    /\ u_calls[2].url.script = "OHND_WrtOpRpt.pl"

(* ============== claims on the assembler, continued ===================== *)

\* C21: no step of the assembler changes or removes a record that is in the
\* results: the list only grows at its end, also while its last record is
\* handed to the row parser as the previous row.
C21_NeverModified ==
    [][\A i \in 1..Len(results) : Len(results') >= i /\ results'[i] = results[i]]_vars

\* Three records; the second, which differs from the first, was handed to the
\* parser of the third row.
C21_Witness ==
    /\ Len(results) = 3
    /\ results[1] # results[2]
    /\ a_calls[3].last_good_row = Some(results[2])
    /\ a_calls[2].last_good_row = Some(results[1])

\* C23: when the first row handed to the row parser has a blank first cell,
\* the parser raises KeyError for the missing previous row, no record is made
\* of it, and the assembler ends with that exception and returns nothing.
C23_FirstBlankRaises ==
    a_calls # <<>> /\ BlankFirstCell(a_calls[1].element) =>
        /\ CallResult(1).exc = "KeyError"
        /\ Len(a_calls) = 1
        /\ results = <<>>
        /\ a_pc = "done"
        /\ a_outcome = "KeyError"
        /\ a_returned = None

\* The blank row is the first row of the second response, the first response
\* having reported a count of 0.
C23_Witness ==
    /\ a_outcome = "KeyError"
    /\ Len(a_consumed) = 2
    /\ a_consumed[1].marker = Some(0)
    /\ a_calls[1].element = Blank5
    /\ a_calls[1].last_good_row = None

\* C26: the court of every row handed to the row parser, and of every record,
\* is the one of the URL of the response the row stands in, and the record is
\* the one the row parser gives for that court, its four-column test included.
C26_CourtOfOwnResponse ==
    \A i \in 1..Len(a_calls) :
        LET own == get_court_id_from_url(a_consumed[a_calls[i].response].url)
        IN  /\ a_calls[i].court_id = own
            /\ i <= Len(results) =>
                /\ results[i].court_id = own
                /\ Val(Some(results[i])) =
                     FreeOpinionRow(a_calls[i].element, a_calls[i].last_good_row, own)

\* One row of five cells stands in a response of cand and in one of areb: the
\* first is parsed with its anchor text as docket number, the second is split
\* as a four-column row and fails for it; a record of areb stands between them.
C26_Witness ==
    /\ Len(a_calls) = 3
    /\ Len(results) = 2
    /\ a_calls[1].element = Full5
    /\ results[1].court_id = "cand"
    /\ results[1].docket_number = Full5.atext
    /\ results[2].court_id = "areb"
    /\ a_calls[3].element = Full5
    /\ a_calls[3].court_id = "areb"
    /\ a_outcome = "IndexError"

\* The rows before the i-th, and the i-th, whose first cell is not blank.
C27_Suppliers(i) == {j \in 1..i : ~BlankFirstCell(a_calls[j].element)}

\* C27: the record of a row with a blank first cell has the pacer_case_id,
\* docket_number and case_name of the record of the nearest row before it whose
\* first cell is not blank, however many blank rows, response boundaries and
\* responses with a count of 0 lie between, and the case id is the one of that
\* row's link.
C27_ChainToNearestSupplier ==
    \A i \in 1..Len(results) :
        BlankFirstCell(a_calls[i].element) =>
            /\ C27_Suppliers(i) # {}
            /\ LET j == Max(C27_Suppliers(i))
               IN  /\ Identity(results[i]) = Identity(results[j])
                   /\ a_calls[j].element.href # None
                   /\ results[i].pacer_case_id = a_calls[j].element.href[1].caseid

\* Two blank rows in a row, the second in the next response: it inherits through
\* the first from the row before that.
C27_Witness ==
    /\ Len(results) = 3
    /\ a_calls[1].element = Full5
    /\ a_calls[2].element = Blank5
    /\ a_calls[2].response = 1
    /\ a_calls[3].response = 2
    /\ BlankFirstCell(a_calls[3].element)
    /\ results[3].pacer_case_id = "c2"
    /\ results[3].case_name = Full5.b[1]

RECURSIVE C30_Rows(_)
\* The rows after the first of the tables of the first n responses, those with a
\* count of 0 left out.
C30_Rows(n) ==
    IF n = 0 THEN 0
    ELSE C30_Rows(n - 1) +
         (IF a_consumed[n].marker # None /\ a_consumed[n].marker[1] # 0
             /\ a_consumed[n].trs # <<>>
          THEN Len(a_consumed[n].trs) - 1 ELSE 0)

\* C30: when the assembler returns, the records are as many as the rows after
\* the first of the tables of the responses whose count is not 0, whatever the
\* counts say.
C30_CountOnlyZeroTest ==
    a_outcome = "returned" =>
        /\ \A k \in 1..Len(a_consumed) : a_consumed[k].marker # None
        /\ a_returned # None
        /\ Len(a_returned[1]) = C30_Rows(Len(a_consumed))

\* A response that reports one opinion and holds two rows, and one that reports
\* one and holds none.
C30_Witness ==
    /\ a_outcome = "returned"
    /\ Len(a_consumed) = 2
    /\ a_consumed[1].marker = Some(1)
    /\ Len(a_consumed[1].trs) = 3
    /\ a_consumed[2].marker = Some(1)
    /\ a_consumed[2].trs = <<HeaderRow>>
    /\ Len(a_returned[1]) = 2

(* ============== claims on the row parser, continued ==================== *)

\* The first cell holds a link and nothing else, and the text of the link is a
\* docket number, one or more spaces and a case name.
C24_DocketSpaceName(el) ==
    /\ el.href # None
    /\ el.b = None
    /\ el.tail = <<>>
    /\ el.atext # <<>>
    /\ el.atext[1] # " "
    /\ el.atext[Len(el.atext)] # " "
    /\ SpacesOf(el.atext) # {}

\* The text before the first space of s.
C24_Left(s) == SubSeq(s, 1, Min(SpacesOf(s)) - 1)

\* The text after the first space of s.
C24_Rest(s) == SubSeq(s, Min(SpacesOf(s)) + 1, Len(s))

\* C24, as stated: under the four-column schema such a cell gives the text
\* before the first space as docket_number and, as case_name, what follows the
\* whole run of whitespace after it.
C24_AsStated ==
    (/\ RowParsed
     /\ (RowElement.ntd = 4 \/ RowCourt \in C4_Override)
     /\ C24_DocketSpaceName(RowElement))
    => (/\ RowRecord.docket_number = C24_Left(RowElement.atext)
        /\ RowRecord.case_name = LStrip(C24_Rest(RowElement.atext)))

\* C24, amended: under the four-column schema such a cell gives the text before
\* the first space as docket_number and, as case_name, everything after that
\* one space, further spaces included.
C24_SplitOnFirstSpace ==
    (/\ RowParsed
     /\ (RowElement.ntd = 4 \/ RowCourt \in C4_Override)
     /\ C24_DocketSpaceName(RowElement))
    => (/\ RowRecord.docket_number = C24_Left(RowElement.atext)
        /\ RowRecord.case_name = C24_Rest(RowElement.atext))

\* Two spaces stand between docket number and name, in a row of five cells of
\* a court of the override set.
C24_Witness ==
    /\ RowParsed
    /\ RowCourt = "areb"
    /\ RowElement.ntd = 5
    /\ C24_DocketSpaceName(RowElement)
    /\ RowElement.atext = <<"7", " ", " ", "v">>
    /\ RowRecord.docket_number = <<"7">>
    /\ RowRecord.case_name = <<" ", "v">>

C28_BackwardRange ==
    court_id \notin UnsupportedCourts /\ ~DateLeq(start, end) =>
        /\ Posts = <<>>
        /\ Len(Gets) <= 1
        /\ outcome # "TypeError"
        /\ pc \in {"dates", "loop"} => http = <<GetRequest(court_id)>>
        /\ pc = "done" /\ outcome # "ConnectionError" =>
            /\ outcome = "returned"
            /\ returned = Some(<<>>)
            /\ http = <<GetRequest(court_id)>>

\* The page held no token, and the empty list is returned all the same.
C28_Witness ==
    /\ court_id = "ohnd"
    /\ ~DateLeq(start, end)
    /\ pc = "done"
    /\ csrf_token = None
    /\ outcome = "returned"
    /\ returned = Some(<<>>)
    /\ Len(http) = 1

(* ============ claims on pipelines run at once, continued =============== *)

\* The answer k of invocation p has an error status and the answers before it
\* can be assembled.
C29_FirstBad(p, k) ==
    /\ inv[p].answers[k].status >= 400
    /\ AssembleFrom(SubSeq(inv[p].answers, 1, k - 1), <<>>).exc = ""

\* C29: an answer with an error status does not end the dispatch: while days
\* are left the loop goes on with no exception, and what goes on to the
\* assembler are the answers of all the days.  The assembler raises HTTPError
\* for such an answer, and does so when and only when the answers before it in
\* the list were assembled without an exception.
C29_StatusSeenByAssemblerOnly ==
    \A p \in Procs :
        LET me == inv[p]
            n == Len(C18_Days(p))
            bad == {k \in 1..Len(me.answers) : C29_FirstBad(p, k)}
        IN  me.court_id \notin UnsupportedCourts =>
            /\ me.pc = "loop" => me.outcome = ""
            /\ me.pc = "assemble" => Len(me.answers) = n /\ Len(me.sent) = n + 1
            /\ me.outcome = "HTTPError" =>
                /\ Len(me.answers) = n
                /\ Len(me.sent) = n + 1
                /\ bad # {}
                /\ me.result = None
            /\ (me.pc = "done" /\ bad # {}
                /\ me.outcome \notin {"cancelled", "ConnectionError", "TypeError"}) =>
                    me.outcome = "HTTPError"

\* The first of two days is answered with an error status; the second day is
\* asked for and answered all the same, and the assembler raises.
C29_Witness ==
    /\ Len(C18_Days(1)) = 2
    /\ Len(inv[1].answers) = 2
    /\ inv[1].answers[1].status = 500
    /\ inv[1].answers[2].status = 200
    /\ Len(inv[1].sent) = 3
    /\ inv[1].outcome = "HTTPError"

====
